---- MODULE Spec2Model ----
(***************************************************************************)
(* Model of scripts/generate-card.py: a straight-line script that draws a  *)
(* 1200x630 card with PIL and saves it as docs/twitter-card.png.           *)
(*                                                                         *)
(* One action per statement (one per iteration for the loops).  The        *)
(* canvas contents are modelled as the sequence of drawing operations      *)
(* applied to it.  The filesystem (font files, output directory, output    *)
(* file) and PIL's text measurement are the environment: the font files    *)
(* and the output directory are chosen in Init, and textbbox is an unknown *)
(* function of (text, font) whose values are chosen when first asked for   *)
(* and remembered in bboxes.                                               *)
(***************************************************************************)
EXTENDS Integers, Sequences, FiniteSets, TLC

VARIABLES
    pc,            \* the statement the script is at
    x, y_line, i,  \* loop iterators: the next value of range(...) / next index of src_dots
    img,           \* the canvas: size, mode, background, drawn operations
    lx, cy,        \* drawing cursor
    title_font, tag_font, desc_font, mono, stat_font,
    dollar_w, cmd_w, box_w,
    events,        \* everything the process did, in order (draws, fs calls, print)
    console,       \* lines printed on stdout by this process
    saves,         \* number of img.save calls made by this process
    cyHist,        \* the values assigned to cy by this process, in order
    fontsPresent,  \* filesystem: the font files that exist
    docsDir,       \* filesystem: state of <script-parent-parent-dir>/docs
    outFile,       \* filesystem: docs/twitter-card.png (NoFile when absent)
    bboxes,        \* PIL: the answers textbbox has given, by <<text, font>>
    run,           \* how many times the script has been started
    prev,          \* what the previous run of the script did
    ct             \* inputs and results of center_text / text_width in isolation

vars == <<pc, x, y_line, i, img, lx, cy, title_font, tag_font, desc_font, mono,
          stat_font, dollar_w, cmd_w, box_w, events, console, saves, cyHist,
          fontsPresent, docsDir, outFile, bboxes, run, prev, ct>>

loopVars == <<x, y_line, i>>
fontVars == <<title_font, tag_font, desc_font, mono, stat_font>>
measVars == <<dollar_w, cmd_w, box_w>>
cursor   == <<lx, cy, cyHist>>
fsVars   == <<fontsPresent, docsDir, outFile>>
outside  == <<run, prev, ct>>

----------------------------------------------------------------------------
(* Bounds of the model *)

MaxRuns == 2
MaxBearing == 1
MaxHeight == 1

----------------------------------------------------------------------------
(* Constants of the script *)

W == 1200
H == 630
bg == <<10, 10, 14>>
accent == <<59, 130, 246>>
green == <<34, 197, 94>>
white == <<240, 240, 240>>
dim == <<120, 120, 130>>
surface == <<22, 22, 28>>

GridStep == 80
GridFill == <<14, 14, 18>>

BoldPath == "/usr/share/fonts/truetype/dejavu/DejaVuSans-Bold.ttf"
RegularPath == "/usr/share/fonts/truetype/dejavu/DejaVuSans.ttf"
MonoPath == "/usr/share/fonts/truetype/dejavu/DejaVuSansMono.ttf"
FontPaths == {BoldPath, RegularPath, MonoPath}

src_dots == << <<920, 160>>, <<1020, 280>>, <<920, 400>> >>
unified == <<1100, 280>>

cmd == "npm install dpth"
box_h == 48
stats_text == "TypeScript  ·  59KB  ·  86 tests  ·  MIT license  ·  github.com/rightclickable420/dpth"

\* __file__: the script's own path, as a sequence of path components
script_file == <<"repo", "scripts", "generate-card.py">>

Unbound == 0 - 1
NoFont == [kind |-> "unbound"]
NoImage == [mode |-> "unbound"]
NoFile == [format |-> "absent"]
NoRun == [events |-> <<>>, img |-> NoImage, outFile |-> NoFile, pc |-> "none"]
CtIdle == [pc |-> "idle"]

----------------------------------------------------------------------------
(* Drawing operations and other events *)

Line(xy, fill, width) ==
    [op |-> "line", xy |-> xy, fill |-> fill, width |-> width]
Ellipse(box, fill, outline, width) ==
    [op |-> "ellipse", box |-> box, fill |-> fill, outline |-> outline, width |-> width]
Text(xy, text, fill, font) ==
    [op |-> "text", xy |-> xy, text |-> text, fill |-> fill, font |-> font]
RoundedRectangle(box, radius, fill, outline) ==
    [op |-> "rounded_rectangle", box |-> box, radius |-> radius, fill |-> fill,
     outline |-> outline]

ExistsEv(p, r) == [op |-> "exists", path |-> p, result |-> r]
TruetypeEv(p, size) == [op |-> "truetype", path |-> p, size |-> size]
LoadDefaultEv == [op |-> "load_default"]
SaveEv(p, ok) == [op |-> "save", path |-> p, format |-> "PNG", ok |-> ok]
GetsizeEv(p, n) == [op |-> "getsize", path |-> p, result |-> n]
PrintEv(line) == [op |-> "print", line |-> line]

DrawOps == {"line", "ellipse", "text", "rounded_rectangle"}
IsDraw(e) == e.op \in DrawOps

----------------------------------------------------------------------------
(* Image.new('RGB', (W, H), bg) *)

\* mutant: width and height given in the wrong order
ImageNew_swapped ==
    [mode |-> "RGB", size |-> <<H, W>>, bg |-> bg, pixels |-> <<>>]

ImageNew ==
    [mode |-> "RGB", size |-> <<W, H>>, bg |-> bg, pixels |-> <<>>]

----------------------------------------------------------------------------
(* get_font, get_mono *)

\* mutant: the font file is loaded without the fallback
get_font_nofallback(size, bold) ==
    LET p == IF bold THEN BoldPath ELSE RegularPath
    IN  [font |-> [kind |-> "truetype", path |-> p, size |-> size],
         ev |-> <<ExistsEv(p, p \in fontsPresent), TruetypeEv(p, size)>>]

get_font(size, bold) ==
    LET p == IF bold THEN BoldPath ELSE RegularPath
    IN  IF p \in fontsPresent
        THEN [font |-> [kind |-> "truetype", path |-> p, size |-> size],
              ev |-> <<ExistsEv(p, TRUE), TruetypeEv(p, size)>>]
        ELSE [font |-> [kind |-> "default"],
              ev |-> <<ExistsEv(p, FALSE), LoadDefaultEv>>]

\* mutant: the monospace font file is loaded without the existence check
get_mono_noprobe(size) ==
    LET p == MonoPath
    IN  [font |-> [kind |-> "truetype", path |-> p, size |-> size],
         ev |-> <<TruetypeEv(p, size)>>]

get_mono(size) ==
    LET p == MonoPath
    IN  IF p \in fontsPresent
        THEN [font |-> [kind |-> "truetype", path |-> p, size |-> size],
              ev |-> <<ExistsEv(p, TRUE), TruetypeEv(p, size)>>]
        ELSE [font |-> [kind |-> "default"],
              ev |-> <<ExistsEv(p, FALSE), LoadDefaultEv>>]

----------------------------------------------------------------------------
(* draw.textbbox((0, 0), text, font=font): PIL's measurement.  A bounding   *)
(* box is <<left, top, right, bottom>> with left <= right and top <=       *)
(* bottom.  The value for a given <<text, font>> is chosen once.            *)

TextWidths == {0, W \div 2, W + 1}

\* the answers considered for the script's own measurements: a width that
\* fits, one that does not, and an empty box, with and without an offset
BBoxChoices ==
    { <<l, l, l + w, l + l>> : l \in {0, 1}, w \in TextWidths }

textbbox(text, font, b) ==
    LET key == <<text, font>>
    IN  /\ b \in BBoxChoices
        /\ key \in DOMAIN bboxes => b = bboxes[key]
        /\ bboxes' = IF key \in DOMAIN bboxes THEN bboxes ELSE bboxes @@ (key :> b)

----------------------------------------------------------------------------
(* center_text, text_width (given the bbox textbbox returned) *)

\* mutant: the right edge of the box is taken for the width
center_text_right(y, text, font, fill, bbox) ==
    [draw |-> Text(<<(W - bbox[3]) \div 2, y>>, text, fill, font),
     ret |-> bbox[4] - bbox[2]]

center_text(y, text, font, fill, bbox) ==
    [draw |-> Text(<<(W - (bbox[3] - bbox[1])) \div 2, y>>, text, fill, font),
     ret |-> bbox[4] - bbox[2]]

text_width(bbox) == bbox[3] - bbox[1]

----------------------------------------------------------------------------
(* The output path, img.save, os.path.getsize and the confirmation line *)

dirname(p) == SubSeq(p, 1, Len(p) - 1)
join(p, a, b) == p \o <<a, b>>
out == join(dirname(dirname(script_file)), "docs", "twitter-card.png")

\* mutant: the error of the save is swallowed
SaveOK_always == TRUE

\* open(out, "w+b") succeeds only when the directory exists and is writable
SaveOK == docsDir = "ok"

\* img.save(out, "PNG", optimize=True): the file is replaced by the encoding
\* of the canvas.  A PNG has a signature, an IHDR, an IDAT and an IEND chunk
\* (57 bytes without data); the length of the compressed data is abstracted
\* to the number of operations drawn.
\* mutant: the file is opened for appending instead of being replaced
img_save_append(im, old) ==
    [format |-> "PNG", size |-> im.size, pixels |-> im.pixels,
     nbytes |-> (IF old = NoFile THEN 0 ELSE old.nbytes) + 57 + Len(im.pixels)]

img_save(im, old) ==
    [format |-> "PNG", size |-> im.size, pixels |-> im.pixels,
     nbytes |-> 57 + Len(im.pixels)]

getsize(f) == f.nbytes

\* mutant: the dimensions are printed as height x width
SavedLine_swapped(o, n) == <<"Saved to ", o, " (", n, " bytes, ", H, "x", W, ")">>

SavedLine(o, n) == <<"Saved to ", o, " (", n, " bytes, ", W, "x", H, ")">>

----------------------------------------------------------------------------
(* Helpers of the actions *)

Draw(op) ==
    /\ img' = [img EXCEPT !.pixels = Append(@, op)]
    /\ events' = Append(events, op)

SetCy(v) ==
    /\ cy' = v
    /\ cyHist' = Append(cyHist, v)

\* mutant: the stop value is included
range_has_incl(v, stop) == v <= stop

\* range(start, stop, step): whether the iterator at v yields another value
range_has(v, stop) == v < stop

\* mutant: the footer offset has the wrong sign
stats_y_below == H + 45

stats_y == H - 45

----------------------------------------------------------------------------
(* Init: a fresh process on some filesystem *)

ProgramInit ==
    /\ pc = "new"
    /\ x = Unbound /\ y_line = Unbound /\ i = Unbound
    /\ img = NoImage
    /\ lx = Unbound /\ cy = Unbound
    /\ title_font = NoFont /\ tag_font = NoFont /\ desc_font = NoFont
    /\ mono = NoFont /\ stat_font = NoFont
    /\ dollar_w = Unbound /\ cmd_w = Unbound /\ box_w = Unbound
    /\ events = <<>>
    /\ console = <<>>
    /\ saves = 0
    /\ cyHist = <<>>

Init ==
    /\ ProgramInit
    /\ fontsPresent \in SUBSET FontPaths
    /\ docsDir \in {"ok", "missing", "unwritable"}
    /\ outFile = NoFile
    /\ bboxes = <<>>
    /\ run = 1
    /\ prev = NoRun
    /\ ct = CtIdle

----------------------------------------------------------------------------
(* Lines 14-15: img = Image.new(...); draw = ImageDraw.Draw(img) *)
NewCanvas ==
    /\ pc = "new"
    /\ img' = ImageNew
    /\ x' = 0
    /\ pc' = "gridv"
    /\ UNCHANGED <<y_line, i, cursor, fontVars, measVars, events, console, saves,
                   fsVars, bboxes, outside>>

(* Lines 35-36: for x in range(0, W, 80): draw.line([(x, 0), (x, H)], ...) *)
GridV ==
    /\ pc = "gridv"
    /\ IF range_has(x, W)
       THEN /\ Draw(Line(<<x, 0, x, H>>, GridFill, 1))
            /\ x' = x + GridStep
            /\ UNCHANGED <<pc, y_line>>
       ELSE /\ pc' = "gridh"
            /\ y_line' = 0
            /\ UNCHANGED <<img, events, x>>
    /\ UNCHANGED <<i, cursor, fontVars, measVars, console, saves, fsVars, bboxes,
                   outside>>

(* Lines 37-38: for y_line in range(0, H, 80): draw.line([(0, y_line), (W, y_line)], ...) *)
GridH ==
    /\ pc = "gridh"
    /\ IF range_has(y_line, H)
       THEN /\ Draw(Line(<<0, y_line, W, y_line>>, GridFill, 1))
            /\ y_line' = y_line + GridStep
            /\ UNCHANGED <<pc, i>>
       ELSE /\ pc' = "lines"
            /\ i' = 1
            /\ UNCHANGED <<img, events, y_line>>
    /\ UNCHANGED <<x, cursor, fontVars, measVars, console, saves, fsVars, bboxes,
                   outside>>

\* mutant: one loop draws each line and its circle together
ConnLines_merged ==
    /\ pc = "lines"
    /\ IF i <= Len(src_dots)
       THEN /\ LET sx == src_dots[i][1]
                   sy == src_dots[i][2]
                   l == Line(<<sx, sy, unified[1], unified[2]>>, <<30, 30, 40>>, 2)
                   c == Ellipse(<<sx - 10, sy - 10, sx + 10, sy + 10>>,
                                <<30, 35, 50>>, <<50, 55, 75>>, 2)
               IN  /\ img' = [img EXCEPT !.pixels = @ \o <<l, c>>]
                   /\ events' = events \o <<l, c>>
            /\ i' = i + 1
            /\ UNCHANGED pc
       ELSE /\ pc' = "unified"
            /\ UNCHANGED <<img, events, i>>
    /\ UNCHANGED <<x, y_line, cursor, fontVars, measVars, console, saves, fsVars,
                   bboxes, outside>>

(* Lines 45-47: for sx, sy in src_dots: draw.line([(sx, sy), unified], ...) *)
ConnLines ==
    /\ pc = "lines"
    /\ IF i <= Len(src_dots)
       THEN /\ Draw(Line(<<src_dots[i][1], src_dots[i][2], unified[1], unified[2]>>,
                         <<30, 30, 40>>, 2))
            /\ i' = i + 1
            /\ UNCHANGED pc
       ELSE /\ pc' = "dots"
            /\ i' = 1
            /\ UNCHANGED <<img, events>>
    /\ UNCHANGED <<x, y_line, cursor, fontVars, measVars, console, saves, fsVars,
                   bboxes, outside>>

(* Lines 48-49: for sx, sy in src_dots: draw.ellipse([sx-10, sy-10, sx+10, sy+10], ...) *)
Dots ==
    /\ pc = "dots"
    /\ IF i <= Len(src_dots)
       THEN /\ LET sx == src_dots[i][1]
                   sy == src_dots[i][2]
               IN  Draw(Ellipse(<<sx - 10, sy - 10, sx + 10, sy + 10>>,
                                <<30, 35, 50>>, <<50, 55, 75>>, 2))
            /\ i' = i + 1
            /\ UNCHANGED pc
       ELSE /\ pc' = "unified"
            /\ UNCHANGED <<img, events, i>>
    /\ UNCHANGED <<x, y_line, cursor, fontVars, measVars, console, saves, fsVars,
                   bboxes, outside>>

(* Line 51: draw.ellipse([unified[0]-16, ...], fill=accent, outline=accent) *)
UnifiedDot ==
    /\ pc = "unified"
    /\ Draw(Ellipse(<<unified[1] - 16, unified[2] - 16, unified[1] + 16, unified[2] + 16>>,
                    accent, accent, 1))
    /\ pc' = "layout"
    /\ UNCHANGED <<loopVars, cursor, fontVars, measVars, console, saves, fsVars,
                   bboxes, outside>>

(* Lines 54-55: lx = 80; cy = 120 *)
Layout ==
    /\ pc = "layout"
    /\ lx' = 80
    /\ SetCy(120)
    /\ pc' = "title_font"
    /\ UNCHANGED <<loopVars, img, fontVars, measVars, events, console, saves, fsVars,
                   bboxes, outside>>

(* Line 58: title_font = get_font(72, bold=True) *)
TitleFont ==
    /\ pc = "title_font"
    /\ LET r == get_font(72, TRUE)
       IN  /\ title_font' = r.font
           /\ events' = events \o r.ev
    /\ pc' = "title"
    /\ UNCHANGED <<loopVars, img, cursor, tag_font, desc_font, mono, stat_font,
                   measVars, console, saves, fsVars, bboxes, outside>>

(* Lines 59-60: draw.text((lx, cy), "dpth.io", ...); cy += 100 *)
Title ==
    /\ pc = "title"
    /\ Draw(Text(<<lx, cy>>, "dpth.io", white, title_font))
    /\ SetCy(cy + 100)
    /\ pc' = "tag_font"
    /\ UNCHANGED <<loopVars, lx, fontVars, measVars, console, saves, fsVars, bboxes,
                   outside>>

(* Line 63: tag_font = get_font(34, bold=True) *)
TagFont ==
    /\ pc = "tag_font"
    /\ LET r == get_font(34, TRUE)
       IN  /\ tag_font' = r.font
           /\ events' = events \o r.ev
    /\ pc' = "tag1"
    /\ UNCHANGED <<loopVars, img, cursor, title_font, desc_font, mono, stat_font,
                   measVars, console, saves, fsVars, bboxes, outside>>

(* Lines 64-65: first tagline; cy += 50 *)
Tag1 ==
    /\ pc = "tag1"
    /\ Draw(Text(<<lx, cy>>, "Same person in Stripe and GitHub?", accent, tag_font))
    /\ SetCy(cy + 50)
    /\ pc' = "tag2"
    /\ UNCHANGED <<loopVars, lx, fontVars, measVars, console, saves, fsVars, bboxes,
                   outside>>

(* Lines 66-67: second tagline; cy += 65 *)
Tag2 ==
    /\ pc = "tag2"
    /\ Draw(Text(<<lx, cy>>, "dpth matches them automatically.", accent, tag_font))
    /\ SetCy(cy + 65)
    /\ pc' = "desc_font"
    /\ UNCHANGED <<loopVars, lx, fontVars, measVars, console, saves, fsVars, bboxes,
                   outside>>

(* Line 70: desc_font = get_font(20, bold=False) *)
DescFont ==
    /\ pc = "desc_font"
    /\ LET r == get_font(20, FALSE)
       IN  /\ desc_font' = r.font
           /\ events' = events \o r.ev
    /\ pc' = "desc1"
    /\ UNCHANGED <<loopVars, img, cursor, title_font, tag_font, mono, stat_font,
                   measVars, console, saves, fsVars, bboxes, outside>>

(* Lines 71-72: first description line; cy += 30 *)
Desc1 ==
    /\ pc = "desc1"
    /\ Draw(Text(<<lx, cy>>, "Pattern detection and temporal history across all your",
                 dim, desc_font))
    /\ SetCy(cy + 30)
    /\ pc' = "desc2"
    /\ UNCHANGED <<loopVars, lx, fontVars, measVars, console, saves, fsVars, bboxes,
                   outside>>

(* Lines 73-74: second description line; cy += 55 *)
Desc2 ==
    /\ pc = "desc2"
    /\ Draw(Text(<<lx, cy>>, "data sources. Pure TypeScript, zero dependencies.",
                 dim, desc_font))
    /\ SetCy(cy + 55)
    /\ pc' = "mono"
    /\ UNCHANGED <<loopVars, lx, fontVars, measVars, console, saves, fsVars, bboxes,
                   outside>>

(* Line 77: mono = get_mono(24) *)
Mono ==
    /\ pc = "mono"
    /\ LET r == get_mono(24)
       IN  /\ mono' = r.font
           /\ events' = events \o r.ev
    /\ pc' = "dollar_w"
    /\ UNCHANGED <<loopVars, img, cursor, title_font, tag_font, desc_font, stat_font,
                   measVars, console, saves, fsVars, bboxes, outside>>

(* Line 79: dollar_w = text_width("$ ", mono) *)
DollarW ==
    /\ pc = "dollar_w"
    /\ \E b \in BBoxChoices :
          /\ textbbox("$ ", mono, b)
          /\ dollar_w' = text_width(b)
    /\ pc' = "cmd_w"
    /\ UNCHANGED <<loopVars, img, cursor, fontVars, cmd_w, box_w, events, console,
                   saves, fsVars, outside>>

(* Line 80: cmd_w = text_width(cmd, mono) *)
CmdW ==
    /\ pc = "cmd_w"
    /\ \E b \in BBoxChoices :
          /\ textbbox(cmd, mono, b)
          /\ cmd_w' = text_width(b)
    /\ pc' = "box"
    /\ UNCHANGED <<loopVars, img, cursor, fontVars, dollar_w, box_w, events, console,
                   saves, fsVars, outside>>

(* Lines 81-83: box_w = dollar_w + cmd_w + 50; draw.rounded_rectangle(...) *)
Box ==
    /\ pc = "box"
    /\ box_w' = dollar_w + cmd_w + 50
    /\ Draw(RoundedRectangle(<<lx, cy, lx + box_w', cy + box_h>>, 10, surface,
                             <<45, 45, 55>>))
    /\ pc' = "dollar"
    /\ UNCHANGED <<loopVars, cursor, fontVars, dollar_w, cmd_w, console, saves,
                   fsVars, bboxes, outside>>

(* Line 84: draw.text((lx + 25, cy + 12), "$ ", fill=dim, font=mono) *)
Dollar ==
    /\ pc = "dollar"
    /\ Draw(Text(<<lx + 25, cy + 12>>, "$ ", dim, mono))
    /\ pc' = "cmd"
    /\ UNCHANGED <<loopVars, cursor, fontVars, measVars, console, saves, fsVars,
                   bboxes, outside>>

(* Line 85: draw.text((lx + 25 + dollar_w, cy + 12), cmd, fill=green, font=mono) *)
Cmd ==
    /\ pc = "cmd"
    /\ Draw(Text(<<lx + 25 + dollar_w, cy + 12>>, cmd, green, mono))
    /\ pc' = "stat_font"
    /\ UNCHANGED <<loopVars, cursor, fontVars, measVars, console, saves, fsVars,
                   bboxes, outside>>

(* Line 88: stat_font = get_font(14, bold=False) *)
StatFont ==
    /\ pc = "stat_font"
    /\ LET r == get_font(14, FALSE)
       IN  /\ stat_font' = r.font
           /\ events' = events \o r.ev
    /\ pc' = "footer"
    /\ UNCHANGED <<loopVars, img, cursor, title_font, tag_font, desc_font, mono,
                   measVars, console, saves, fsVars, bboxes, outside>>

(* Lines 89-90: stats_y = H - 45; center_text(stats_y, "...", stat_font, (60, 60, 70)) *)
Footer ==
    /\ pc = "footer"
    /\ \E b \in BBoxChoices :
          /\ textbbox(stats_text, stat_font, b)
          /\ Draw(center_text(stats_y, stats_text, stat_font, <<60, 60, 70>>, b).draw)
    /\ pc' = "save"
    /\ UNCHANGED <<loopVars, cursor, fontVars, measVars, console, saves, fsVars,
                   outside>>

(* Lines 92-93: out = os.path.join(...); img.save(out, "PNG", optimize=True) *)
Save ==
    /\ pc = "save"
    /\ saves' = saves + 1
    /\ IF SaveOK
       THEN /\ outFile' = img_save(img, outFile)
            /\ events' = Append(events, SaveEv(out, TRUE))
            /\ pc' = "print"
       ELSE /\ outFile' = outFile
            /\ events' = Append(events, SaveEv(out, FALSE))
            /\ pc' = "failed"
    /\ UNCHANGED <<loopVars, img, cursor, fontVars, measVars, console, fontsPresent,
                   docsDir, bboxes, outside>>

(* Line 94: print(f"Saved to {out} ({os.path.getsize(out)} bytes, {W}x{H})") *)
PrintSaved ==
    /\ pc = "print"
    /\ LET n == getsize(outFile)
       IN  /\ console' = Append(console, SavedLine(out, n))
           /\ events' = events \o <<GetsizeEv(out, n), PrintEv(SavedLine(out, n))>>
    /\ pc' = "done"
    /\ UNCHANGED <<loopVars, img, cursor, fontVars, measVars, saves, fsVars, bboxes,
                   outside>>

(* The script is run again on the same filesystem: a new process *)
Restart ==
    /\ pc \in {"done", "failed"}
    /\ run < MaxRuns
    /\ run' = run + 1
    /\ prev' = [events |-> events, img |-> img, outFile |-> outFile, pc |-> pc]
    /\ pc' = "new"
    /\ x' = Unbound /\ y_line' = Unbound /\ i' = Unbound
    /\ img' = NoImage
    /\ lx' = Unbound /\ cy' = Unbound
    /\ title_font' = NoFont /\ tag_font' = NoFont /\ desc_font' = NoFont
    /\ mono' = NoFont /\ stat_font' = NoFont
    /\ dollar_w' = Unbound /\ cmd_w' = Unbound /\ box_w' = Unbound
    /\ events' = <<>>
    /\ console' = <<>>
    /\ saves' = 0
    /\ cyHist' = <<>>
    /\ UNCHANGED <<fsVars, bboxes, ct>>

----------------------------------------------------------------------------
(* center_text and text_width on their own: every bounding box PIL can     *)
(* return for a text up to a little wider than the canvas                  *)

CenterBBoxes ==
    { <<l, t, l + w, t + h>> : l \in 0..MaxBearing, t \in 0..MaxBearing,
                               w \in 0..(W + MaxBearing), h \in 0..MaxHeight }

InitCenter ==
    /\ ProgramInit
    /\ fontsPresent = FontPaths
    /\ docsDir = "ok"
    /\ outFile = NoFile
    /\ bboxes = <<>>
    /\ run = 1
    /\ prev = NoRun
    /\ ct \in { [pc |-> "text_width", bbox |-> b, w |-> Unbound, x |-> Unbound,
                 h |-> Unbound] : b \in CenterBBoxes }

(* text_width(text, font) where textbbox answers ct.bbox *)
CT_TextWidth ==
    /\ ct.pc = "text_width"
    /\ ct' = [ct EXCEPT !.w = text_width(ct.bbox), !.pc = "center_text"]
    /\ UNCHANGED <<pc, loopVars, img, cursor, fontVars, measVars, events, console,
                   saves, fsVars, bboxes, run, prev>>

(* center_text(stats_y, text, font, fill) where textbbox answers ct.bbox *)
CT_CenterText ==
    /\ ct.pc = "center_text"
    /\ LET r == center_text(stats_y, stats_text, [kind |-> "default"], <<60, 60, 70>>,
                            ct.bbox)
       IN  ct' = [ct EXCEPT !.x = r.draw.xy[1], !.h = r.ret, !.pc = "done"]
    /\ UNCHANGED <<pc, loopVars, img, cursor, fontVars, measVars, events, console,
                   saves, fsVars, bboxes, run, prev>>

NextCenter == CT_TextWidth \/ CT_CenterText

SpecCenter == InitCenter /\ [][NextCenter]_vars

----------------------------------------------------------------------------
Next ==
    \/ NewCanvas \/ GridV \/ GridH \/ ConnLines \/ Dots \/ UnifiedDot
    \/ Layout \/ TitleFont \/ Title \/ TagFont \/ Tag1 \/ Tag2
    \/ DescFont \/ Desc1 \/ Desc2 \/ Mono \/ DollarW \/ CmdW \/ Box
    \/ Dollar \/ Cmd \/ StatFont \/ Footer \/ Save \/ PrintSaved

Spec == Init /\ [][Next]_vars

(* The script run up to MaxRuns times in a row on the same filesystem *)
NextTwice == Next \/ Restart

SpecTwice == Init /\ [][NextTwice]_vars

----------------------------------------------------------------------------
(* Vocabulary of the properties *)

PcOrder ==
    <<"new", "gridv", "gridh", "lines", "dots", "unified", "layout", "title_font",
      "title", "tag_font", "tag1", "tag2", "desc_font", "desc1", "desc2", "mono",
      "dollar_w", "cmd_w", "box", "dollar", "cmd", "stat_font", "footer", "save",
      "print", "done">>

\* position of a statement in the script; "failed" comes after "save"
Rank(p) ==
    IF p = "failed" THEN Len(PcOrder) - 1
    ELSE CHOOSE k \in 1..Len(PcOrder) : PcOrder[k] = p

Past(p) == Rank(pc) > Rank(p)

\* the operations drawn on the canvas so far
Pixels == IF pc = "new" THEN <<>> ELSE img.pixels

IdxOf(name) == { k \in 1..Len(events) : events[k].op = name }

TruetypeFont(p, size) == [kind |-> "truetype", path |-> p, size |-> size]
DefaultFont == [kind |-> "default"]

\* the points a drawing operation is given
Coords(e) ==
    IF e.op = "line" THEN { <<e.xy[1], e.xy[2]>>, <<e.xy[3], e.xy[4]>> }
    ELSE IF e.op = "text" THEN { e.xy }
    ELSE { <<e.box[1], e.box[2]>>, <<e.box[3], e.box[4]>> }

----------------------------------------------------------------------------
\* C1: from its creation to the end of the run the canvas is 1200x630, for
\* every set of font files present; the file written has these dimensions and
\* so does the confirmation line.
C1_CanvasSize ==
    /\ pc # "new" => img.size = <<1200, 630>>
    /\ outFile # NoFile => outFile.size = <<1200, 630>>
    /\ \A k \in 1..Len(console) : console[k][6] = 1200 /\ console[k][8] = 630

C1_Witness ==
    /\ pc = "done"
    /\ Len(img.pixels) = 39
    /\ outFile # NoFile
    /\ Len(console) = 1
    /\ fontsPresent = {BoldPath}

----------------------------------------------------------------------------
\* C2: each font request resolves to the file's font when its file is present
\* and to the built-in default font when it is absent, whatever the other
\* files are; no missing font leads to the failed state or stops the run, and
\* with a writable output directory the run saves a 1200x630 file.
C2_Resolved(f, p, size) ==
    f = IF p \in fontsPresent THEN TruetypeFont(p, size) ELSE DefaultFont

C2_FontFallback ==
    /\ Past("title_font") => C2_Resolved(title_font, BoldPath, 72)
    /\ Past("tag_font") => C2_Resolved(tag_font, BoldPath, 34)
    /\ Past("desc_font") => C2_Resolved(desc_font, RegularPath, 20)
    /\ Past("mono") => C2_Resolved(mono, MonoPath, 24)
    /\ Past("stat_font") => C2_Resolved(stat_font, RegularPath, 14)
    /\ pc = "failed" => docsDir # "ok"
    /\ pc \notin {"done", "failed"} => ENABLED Next
    /\ (Past("save") /\ docsDir = "ok") =>
          /\ outFile # NoFile
          /\ outFile.size = <<1200, 630>>

C2_Witness ==
    /\ pc = "done"
    /\ fontsPresent = {RegularPath}
    /\ title_font = DefaultFont
    /\ tag_font = DefaultFont
    /\ mono = DefaultFont
    /\ desc_font = TruetypeFont(RegularPath, 20)
    /\ stat_font = TruetypeFont(RegularPath, 14)
    /\ outFile.size = <<1200, 630>>

----------------------------------------------------------------------------
\* C3: when the output directory is missing or not writable, no step creates
\* it, the save is attempted once and leads to the failed state, which the
\* process never leaves, no line is printed and the run never succeeds.
C3_SaveFailure ==
    [][ docsDir # "ok" =>
          /\ docsDir' = docsDir
          /\ console' = <<>>
          /\ saves' <= 1
          /\ pc' \notin {"print", "done"}
          /\ pc = "save" => (pc' = "failed" /\ saves' = 1 /\ outFile' = outFile)
          /\ pc = "failed" => pc' = "failed" ]_vars

C3_Witness ==
    /\ pc = "failed"
    /\ docsDir = "missing"
    /\ saves = 1
    /\ console = <<>>
    /\ outFile = NoFile
    /\ IdxOf("save") = {Len(events)}

----------------------------------------------------------------------------
\* C4: a run is one forward pass: at most one save and one printed line, all
\* 39 drawing operations precede the save, the save precedes the line, nothing
\* is written or printed before the drawing is complete, and a successful run
\* ends with a non-empty docs/twitter-card.png and exactly the line
\* "Saved to <path> (<N> bytes, 1200x630)" with N the size of the file.
C4_ForwardPass ==
    /\ Cardinality(IdxOf("save")) <= 1
    /\ Cardinality(IdxOf("print")) <= 1
    /\ \A s \in IdxOf("save") :
          /\ Cardinality({ d \in 1..(s - 1) : IsDraw(events[d]) }) = 39
          /\ \A d \in (s + 1)..Len(events) : ~IsDraw(events[d])
    /\ \A p \in IdxOf("print") : \E s \in IdxOf("save") : s < p /\ events[s].ok
    /\ ~Past("save") => (outFile = NoFile /\ console = <<>>)
    /\ pc = "done" =>
          /\ outFile # NoFile
          /\ outFile.nbytes > 0
          /\ console = << <<"Saved to ", <<"repo", "docs", "twitter-card.png">>,
                            " (", outFile.nbytes, " bytes, ", 1200, "x", 630, ")">> >>

C4_Witness ==
    /\ pc = "done"
    /\ Len(console) = 1
    /\ Cardinality(IdxOf("save")) = 1
    /\ Cardinality(IdxOf("print")) = 1
    /\ outFile.nbytes > 0

----------------------------------------------------------------------------
\* C5: center_text draws at x = floor((W - w) / 2) with w = right - left the
\* width text_width measures for the same text and font; w and the returned
\* height are never negative, and for 0 <= w <= W the left margin x is not
\* negative and differs from the right margin W - w - x by at most one pixel.
C5_Centering ==
    ct.pc = "done" =>
        /\ ct.w >= 0
        /\ ct.h >= 0
        /\ ct.w = ct.bbox[3] - ct.bbox[1]
        /\ ct.h = ct.bbox[4] - ct.bbox[2]
        /\ 2 * ct.x <= 1200 - ct.w
        /\ 1200 - ct.w < 2 * ct.x + 2
        /\ ct.w <= 1200 =>
              /\ ct.x >= 0
              /\ (1200 - ct.w - ct.x) - ct.x \in {0, 1}

C5_Witness ==
    /\ ct.pc = "done"
    /\ ct.bbox[1] = 1
    /\ ct.w = 1199
    /\ ct.x = 0
    /\ ct.h = 1

----------------------------------------------------------------------------
\* C6: a second run of the script on the same filesystem (same font files, the
\* output file of the first run now present) repeats the first run: at every
\* step what it has done so far is what the first run did at that step, and it
\* ends in the same state with the same canvas and the same output file.
C6_Deterministic ==
    run >= 2 =>
        /\ Len(events) <= Len(prev.events)
        /\ events = SubSeq(prev.events, 1, Len(events))
        /\ pc \in {"done", "failed"} =>
              /\ pc = prev.pc
              /\ events = prev.events
              /\ img = prev.img
              /\ outFile = prev.outFile

C6_Witness ==
    /\ run = 2
    /\ pc = "done"
    /\ prev.pc = "done"
    /\ prev.outFile # NoFile
    /\ Len(events) = Len(prev.events)
    /\ fontsPresent = {MonoPath}

----------------------------------------------------------------------------
\* C7 as stated: four font file paths are read, each probed before it is loaded.
C7_FourPaths ==
    /\ \A k \in IdxOf("truetype") :
          k > 1 /\ events[k - 1] = ExistsEv(events[k].path, TRUE)
    /\ pc = "done" =>
          Cardinality({ events[k].path : k \in IdxOf("exists") }) = 4

\* C7 (amended): the script reads three font file paths (bold, regular,
\* monospace) in five requests (bold twice, regular twice, monospace once);
\* every load of a font file directly follows a successful existence check of
\* the same path, and no other path is probed or loaded.
C7_ProbeBeforeLoad ==
    /\ \A k \in IdxOf("truetype") :
          k > 1 /\ events[k - 1] = ExistsEv(events[k].path, TRUE)
    /\ \A k \in IdxOf("exists") :
          /\ events[k].path \in FontPaths
          /\ events[k].result = (events[k].path \in fontsPresent)
    /\ Past("stat_font") =>
          /\ { events[k].path : k \in IdxOf("exists") } =
                { "/usr/share/fonts/truetype/dejavu/DejaVuSans-Bold.ttf",
                  "/usr/share/fonts/truetype/dejavu/DejaVuSans.ttf",
                  "/usr/share/fonts/truetype/dejavu/DejaVuSansMono.ttf" }
          /\ Cardinality(IdxOf("exists")) = 5
          /\ Cardinality({ k \in IdxOf("exists") : events[k].path = BoldPath }) = 2
          /\ Cardinality({ k \in IdxOf("exists") : events[k].path = RegularPath }) = 2
          /\ Cardinality({ k \in IdxOf("exists") : events[k].path = MonoPath }) = 1

C7_Witness ==
    /\ pc = "done"
    /\ fontsPresent = FontPaths
    /\ Cardinality(IdxOf("truetype")) = 5
    /\ Cardinality(IdxOf("exists")) = 5

----------------------------------------------------------------------------
\* C8 as stated: every coordinate given to a drawing operation satisfies
\* 0 <= x < 1200 and 0 <= y < 630, and cy takes 120, 220, 270, 335, 365, 420.
C8_CyValues == <<120, 220, 270, 335, 365, 420>>

C8_Measured(e) ==
    \/ e.op = "rounded_rectangle"
    \/ e.op = "text" /\ e.text \in {cmd, stats_text}

----------------------------------------------------------------------------
\* C9: the first 15 operations drawn are the vertical lines x = 0, 80, ...,
\* 1120 from y = 0 to y = 630, the next 8 are the horizontal lines y = 0, 80,
\* ..., 560 from x = 0 to x = 1200; each loop stops after these draws, and
\* every other element is drawn after them.
C9_VLine(k) == Line(<<80 * (k - 1), 0, 80 * (k - 1), 630>>, <<14, 14, 18>>, 1)
C9_HLine(j) == Line(<<0, 80 * (j - 1), 1200, 80 * (j - 1)>>, <<14, 14, 18>>, 1)

C9_Grid ==
    /\ \A k \in 1..Len(Pixels) :
          /\ k <= 15 => Pixels[k] = C9_VLine(k)
          /\ (15 < k /\ k <= 23) => Pixels[k] = C9_HLine(k - 15)
          /\ k > 23 => ~(Pixels[k].op = "line" /\ Pixels[k].fill = <<14, 14, 18>>)
    /\ pc = "gridv" => (Len(Pixels) <= 15 /\ x = 80 * Len(Pixels))
    /\ pc = "gridh" => (15 <= Len(Pixels) /\ Len(Pixels) <= 23
                        /\ y_line = 80 * (Len(Pixels) - 15))
    /\ Past("gridh") => Len(Pixels) >= 23
    /\ pc \in {"gridv", "gridh"} => ENABLED Next

C9_Witness ==
    /\ pc = "lines"
    /\ Len(Pixels) = 23
    /\ Pixels[15] = C9_VLine(15)
    /\ Pixels[23] = C9_HLine(8)
    /\ Pixels[15].xy[1] = 1120
    /\ Pixels[23].xy[2] = 560

----------------------------------------------------------------------------
\* C10: after the grid, the three connector lines from (920,160), (1020,280)
\* and (920,400) to (1100,280) are drawn, one per small circle, then the three
\* small circles of radius 10 at these points, then the accent circle of
\* radius 16 at (1100,280); no other line or circle is drawn after the grid.
C10_Dots == << <<920, 160>>, <<1020, 280>>, <<920, 400>> >>

C10_Diagram ==
    /\ \A k \in 1..Len(Pixels) :
          LET e == Pixels[k]
          IN  /\ (23 < k /\ k <= 26) =>
                    /\ e.op = "line"
                    /\ e.xy = <<C10_Dots[k - 23][1], C10_Dots[k - 23][2], 1100, 280>>
              /\ (26 < k /\ k <= 29) =>
                    /\ e.op = "ellipse"
                    /\ e.box = <<C10_Dots[k - 26][1] - 10, C10_Dots[k - 26][2] - 10,
                                 C10_Dots[k - 26][1] + 10, C10_Dots[k - 26][2] + 10>>
              /\ k = 30 =>
                    /\ e.op = "ellipse"
                    /\ e.box = <<1100 - 16, 280 - 16, 1100 + 16, 280 + 16>>
                    /\ e.fill = accent
              /\ k > 30 => e.op \notin {"line", "ellipse"}
              /\ k <= 23 => e.op = "line"
    /\ pc = "lines" => Len(Pixels) = 23 + (i - 1)
    /\ pc = "dots" => Len(Pixels) = 26 + (i - 1)
    /\ pc = "unified" => Len(Pixels) = 29
    /\ Past("unified") => Len(Pixels) >= 30

C10_Witness ==
    /\ pc = "layout"
    /\ Len(Pixels) = 30
    /\ Pixels[26].xy = <<920, 400, 1100, 280>>
    /\ Pixels[27].box = <<910, 150, 930, 170>>
    /\ Pixels[30].box = <<1084, 264, 1116, 296>>

====
